---- MODULE Spec2Model ----
(***************************************************************************)
(* AP Business Tools (src/app.py): a Flask backend whose handlers map a    *)
(* JSON body to a fixed-column row and append it to, or update it in, a    *)
(* tab of one Google spreadsheet.                                          *)
(*                                                                         *)
(* The spreadsheet document is the only shared state.  Every handler is a  *)
(* straight line of remote calls (open the document, look a tab up,        *)
(* create it, append a row, update a cell, read all records); a handler    *)
(* is modelled as the sequence of those calls and every call is one step   *)
(* of the worker that serves the request, so that requests served by       *)
(* different workers interleave call by call.  A remote call either takes  *)
(* effect and returns, or raises without effect; a raised exception is     *)
(* caught by the handler's `except Exception` and answered with HTTP 500.  *)
(***************************************************************************)
EXTENDS Integers, Sequences, FiniteSets, TLC

\* ---------------------------------------------------------------- bounds
\* Requests served in one behaviour of Spec (any route), of SpecPipeline
\* (the pipeline routes) and of SpecList (the append and list routes).
MaxRequests == 2
MaxPipelineRequests == 2
MaxListRequests == 3
\* Job rows the pipeline tab holds when a behaviour of SpecPipeline starts.
MaxJobs == 2
\* Largest row index a client sends in PUT /api/job/<row_index>.
MaxRowIndex == 4
\* Values of the wall clock (datetime.now()).
MaxClock == 2
\* Workers serving requests at the same time (app.run is threaded).
Threads == {1, 2}

\* ------------------------------------------------------------- constants
LABOR_RATE == 560

TAB_INQUIRIES == "Customer Inquiries"
TAB_ESTIMATES == "Detailed Estimates"
TAB_PIPELINE == "Job Pipeline Master"
TAB_JOBLIST == "Joblist"

Tabs == {TAB_INQUIRIES, TAB_ESTIMATES, TAB_PIPELINE, TAB_JOBLIST}

JOBLIST_HEADERS ==
    << "Job Address", "Interior/Exterior", "Status", "Priority",
       "Labor Days", "Action Needed", "Notes", "Start Date",
       "Completion Date", "Hood", "Customer Name", "Phone", "Email",
       "Date Added", "Last Updated", "Estimate Complete", "Estimator",
       "Estimated Value", "Days Since Est Sent", "Priority Sort", "Status Sort" >>

INQUIRY_HEADERS ==
    << "Timestamp", "Customer Name", "Phone", "Email", "Address",
       "Job Types", "Timeline", "Last Painted", "Previous Customer",
       "Notes", "Status" >>

ESTIMATE_HEADERS ==
    << "Date", "Customer Name", "Job Address", "Estimator", "Job Type",
       "Total Hours", "Labor Days", "Estimated Value",
       "Prep Condition", "Furniture Level", "Ladder Requirement",
       "Colors/Products", "Equipment Needed", "Notes" >>

PIPELINE_HEADERS ==
    << "Date Added", "Customer Name", "Address", "Phone", "Job Type",
       "Estimated Days", "Estimated Value", "Status", "Scheduled Date",
       "Estimator", "Notes" >>

\* The columns update_job writes.
COL_STATUS == 8
COL_SCHEDULED == 9
COL_NOTES == 11

\* ---------------------------------------------------------------- values
\* A JSON / cell value: a string, a number or null, in one record shape.
S(s) == [k |-> "str", n |-> 0, s |-> s]
N(n) == [k |-> "num", n |-> n, s |-> ""]
Null == [k |-> "null", n |-> 0, s |-> ""]
Empty == S("")

\* dict.get(key, default)
Get(d, key, default) == IF key \in DOMAIN d THEN d[key] ELSE default

\* {} : the dict with no key
EmptyDict == [x \in {} |-> Empty]

\* bool(v): "", 0 and None are false
Truthy(v) ==
    CASE v.k = "str" -> v.s # ""
      [] v.k = "num" -> v.n # 0
      [] OTHER -> FALSE

\* The whitespace-only strings and the numeric strings of the inputs: what
\* str.strip() and float() do on the strings requests carry here.
Whitespace == {" ", "  "}
NumericStrings == ("2" :> 2) @@ ("0" :> 0)

\* str(v).strip(): the text of a number or of None is never blank
StrStrip(v) ==
    CASE v.k = "str" -> (IF v.s \in Whitespace THEN "" ELSE v.s)
      [] v.k = "num" -> "<number>"
      [] OTHER -> "None"

\* float(v) succeeds (no ValueError / TypeError)
FloatOk(v) ==
    CASE v.k = "num" -> TRUE
      [] v.k = "str" -> v.s \in DOMAIN NumericStrings
      [] OTHER -> FALSE

\* float(v), where it succeeds
Float(v) == IF v.k = "num" THEN v.n ELSE NumericStrings[v.s]

\* ", ".join(list)
RECURSIVE Join(_)
Join(l) ==
    IF l = <<>> THEN ""
    ELSE IF Len(l) = 1 THEN l[1]
    ELSE l[1] \o ", " \o Join(Tail(l))

\* datetime.now().isoformat() and datetime.now().strftime("%m/%d/%Y") at
\* clock value c.
IsoFormat(c) == <<"2026-03-01T09:00:00", "2026-03-02T09:00:00",
                  "2026-03-03T09:00:00", "2026-03-04T09:00:00">>[c]
StrfDate(c) == <<"03/01/2026", "03/02/2026", "03/03/2026", "03/04/2026">>[c]

\* A header list as the row that is appended.
HeaderRow(headers) == [i \in 1..Len(headers) |-> S(headers[i])]

\* ------------------------------------------------------------ rows built
\* Mutant: phone and email in each other's column.
InquiryRowSwapped(data, c) ==
    << Get(data, "timestamp", S(IsoFormat(c))),
       Get(data, "customerName", Empty),
       Get(data, "email", Empty),
       Get(data, "phone", Empty),
       Get(data, "address", Empty),
       S(Join(Get(data, "jobTypes", <<>>))),
       Get(data, "timeline", Empty),
       Get(data, "lastPainted", Empty),
       Get(data, "previousCustomer", Empty),
       Get(data, "notes", Empty),
       Get(data, "status", S("New")) >>

\* save_inquiry: the row for the Customer Inquiries tab.
InquiryRow(data, c) ==
    << Get(data, "timestamp", S(IsoFormat(c))),
       Get(data, "customerName", Empty),
       Get(data, "phone", Empty),
       Get(data, "email", Empty),
       Get(data, "address", Empty),
       S(Join(Get(data, "jobTypes", <<>>))),
       Get(data, "timeline", Empty),
       Get(data, "lastPainted", Empty),
       Get(data, "previousCustomer", Empty),
       Get(data, "notes", Empty),
       Get(data, "status", S("New")) >>

\* save_inquiry: the keyword arguments of its append_to_joblist call.
InquiryKwargs(data) ==
    [ address |-> Get(data, "address", Empty),
      customer_name |-> Get(data, "customerName", Empty),
      phone |-> Get(data, "phone", Empty),
      email |-> Get(data, "email", Empty),
      status |-> S("Need Estimate"),
      hood |-> Get(data, "hood", Empty),
      notes |-> Get(data, "notes", Empty),
      int_ext |-> S(Join(Get(data, "jobTypes", <<>>))) ]

\* save_estimate: the row for the Detailed Estimates tab.
EstimateRow(data, c) ==
    LET conditions == Get(data, "conditions", EmptyDict)
    IN << Get(data, "date", S(StrfDate(c))),
          Get(data, "customerName", Empty),
          Get(data, "jobAddress", Empty),
          Get(data, "estimator", Empty),
          Get(data, "jobType", Empty),
          Get(data, "totalHours", N(0)),
          Get(data, "laborDays", N(0)),
          Get(data, "totalValue", N(0)),
          Get(conditions, "prep", Empty),
          Get(conditions, "furniture", Empty),
          Get(conditions, "ladder", Empty),
          Get(data, "colors", Empty),
          S(Join(Get(data, "tools", <<>>))),
          Get(data, "notes", Empty) >>

\* save_estimate: the keyword arguments of its append_to_joblist call.
EstimateKwargs(data) ==
    [ address |-> Get(data, "jobAddress", Empty),
      customer_name |-> Get(data, "customerName", Empty),
      status |-> S("Estimate Sent"),
      labor_days |-> Get(data, "laborDays", N(0)),
      int_ext |-> Get(data, "jobType", Empty),
      start_date |-> Get(data, "startDate", Empty),
      notes |-> Get(data, "notes", Empty),
      estimator |-> Get(data, "estimator", Empty),
      est_complete |-> S("Yes") ]

\* Mutant: est_value computed without the `if labor_days` guard.
EstValueNoGuard(labor_days) ==
    IF FloatOk(labor_days)
    THEN N(Float(labor_days) * LABOR_RATE)
    ELSE Empty

\* append_to_joblist: est_value
EstValue(labor_days) ==
    IF Truthy(labor_days) /\ StrStrip(labor_days) # "" /\ FloatOk(labor_days)
    THEN N(Float(labor_days) * LABOR_RATE)
    ELSE Empty

\* append_to_joblist: the row for the Joblist tab (columns A-U).
JoblistRow(kwargs, c) ==
    LET today == S(StrfDate(c))
        labor_days == Get(kwargs, "labor_days", Empty)
    IN << Get(kwargs, "address", Empty),
          Get(kwargs, "int_ext", Empty),
          Get(kwargs, "status", Empty),
          Get(kwargs, "priority", Empty),
          labor_days,
          Get(kwargs, "action", Empty),
          Get(kwargs, "notes", Empty),
          Get(kwargs, "start_date", Empty),
          Get(kwargs, "completion_date", Empty),
          Get(kwargs, "hood", Empty),
          Get(kwargs, "customer_name", Empty),
          Get(kwargs, "phone", Empty),
          Get(kwargs, "email", Empty),
          Get(kwargs, "date_added", today),
          Get(kwargs, "last_updated", today),
          Get(kwargs, "est_complete", Empty),
          Get(kwargs, "estimator", Empty),
          EstValue(labor_days),
          Empty,
          Empty,
          Empty >>

\* add_job: the row for the Job Pipeline Master tab.
JobRow(data, c) ==
    << Get(data, "dateAdded", S(StrfDate(c))),
       Get(data, "customerName", Empty),
       Get(data, "address", Empty),
       Get(data, "phone", Empty),
       Get(data, "jobType", Empty),
       Get(data, "estimatedDays", Empty),
       Get(data, "estimatedValue", Empty),
       Get(data, "status", S("New Lead")),
       Get(data, "scheduledDate", Empty),
       Get(data, "estimator", Empty),
       Get(data, "notes", Empty) >>

\* ----------------------------------------------------- the spreadsheet
\* value_input_option="USER_ENTERED": the service parses a value as if it
\* were typed into the cell: numeric text becomes a number, None an empty
\* cell.
UserEntered(v) ==
    CASE v.k = "str" /\ v.s \in DOMAIN NumericStrings -> N(NumericStrings[v.s])
      [] v.k = "null" -> Empty
      [] OTHER -> v

\* A tab that does not exist / a tab as add_worksheet(cols=...) creates it.
NoTab == [exists |-> FALSE, cols |-> 0, rows |-> <<>>]
NewTab(cols) == [exists |-> TRUE, cols |-> cols, rows |-> <<>>]

BlankRow(cols) == [j \in 1..cols |-> Empty]

\* Mutant: the row is written over the last row instead of after it.
AppendRowOverwrite(rows, row) ==
    IF rows = <<>> THEN << [j \in 1..Len(row) |-> UserEntered(row[j])] >>
    ELSE [rows EXCEPT ![Len(rows)] = [j \in 1..Len(row) |-> UserEntered(row[j])]]

\* ws.append_row(row, value_input_option="USER_ENTERED"): one new last row
AppendRow(rows, row) == Append(rows, [j \in 1..Len(row) |-> UserEntered(row[j])])

\* ws.update_cell(r, c, value): writes one cell of the grid; the rows of the
\* grid between the last row holding data and row r are blank.
UpdateCell(rows, cols, r, c, value) ==
    LET padded == rows \o [i \in 1..(r - Len(rows)) |-> BlankRow(cols)]
    IN [padded EXCEPT ![r][c] = UserEntered(value)]

\* The value of cell (r, c) of a tab: empty where nothing was written.
Cell(tab, r, c) ==
    IF r \in 1..Len(tab.rows) /\ c \in 1..Len(tab.rows[r]) THEN tab.rows[r][c] ELSE Empty

\* dict(zip(keys, row)): a later duplicate key wins
Record(keys, row) ==
    [h \in {keys[j] : j \in 1..Len(keys)} |->
        LET js == {j \in 1..Len(keys) : keys[j] = h}
            last == CHOOSE j \in js : \A i \in js : i <= j
        IN IF last <= Len(row) THEN row[last] ELSE Empty]

\* Mutant: the first data row is taken for a second header row.
GetAllRecordsSkipFirst(rows) ==
    IF Len(rows) <= 2 THEN <<>>
    ELSE [i \in 1..(Len(rows) - 2) |-> Record(rows[1], rows[i + 2])]

\* ws.get_all_records(): row 1 gives the keys, every later row one record
GetAllRecords(rows) ==
    IF Len(rows) <= 1 THEN <<>>
    ELSE [i \in 1..(Len(rows) - 1) |-> Record(rows[1], rows[i + 1])]

\* ------------------------------------------------------------- handlers
\* A handler's remote calls, in program order.  get_sheet(), the first call
\* of every handler, reads and writes no tab: the document is open when the
\* handler starts, and its failure is the failure of the handler's first
\* step.
Call(kind, tab, col, val) == [kind |-> kind, tab |-> tab, col |-> col, val |-> val]

\* get_or_create_worksheet(spreadsheet, tab_name, headers): look the tab up;
\* on WorksheetNotFound add it with len(headers) columns and append headers.
get_or_create_worksheet(tab_name) == Call("ensure", tab_name, 0, Empty)

\* ws.append_row(row, value_input_option="USER_ENTERED") of a handler
append_row(tab_name) == Call("append", tab_name, 0, Empty)

\* ws.update_cell(row_index, col, value) of update_job
update_cell(col, value) == Call("update", TAB_PIPELINE, col, value)

\* ws.get_all_records() of a GET handler
get_all_records(tab_name) == Call("records", tab_name, 0, Empty)

append_to_joblist == << get_or_create_worksheet(TAB_JOBLIST), append_row(TAB_JOBLIST) >>

\* Mutant: the inquiry is not mirrored into the Joblist tab.
save_inquiry_no_mirror ==
    << get_or_create_worksheet(TAB_INQUIRIES), append_row(TAB_INQUIRIES) >>

save_inquiry ==
    << get_or_create_worksheet(TAB_INQUIRIES), append_row(TAB_INQUIRIES) >>
    \o append_to_joblist

get_inquiries ==
    << get_or_create_worksheet(TAB_INQUIRIES), get_all_records(TAB_INQUIRIES) >>

save_estimate ==
    << get_or_create_worksheet(TAB_ESTIMATES), append_row(TAB_ESTIMATES) >>
    \o append_to_joblist

get_jobs ==
    << get_or_create_worksheet(TAB_PIPELINE), get_all_records(TAB_PIPELINE) >>

add_job ==
    << get_or_create_worksheet(TAB_PIPELINE), append_row(TAB_PIPELINE) >>

\* Mutant: notes written to column 10 (Estimator).
update_job_wrong_column(data) ==
    << get_or_create_worksheet(TAB_PIPELINE) >>
    \o (IF "status" \in DOMAIN data
        THEN << update_cell(COL_STATUS, data["status"]) >> ELSE <<>>)
    \o (IF "scheduledDate" \in DOMAIN data
        THEN << update_cell(COL_SCHEDULED, data["scheduledDate"]) >> ELSE <<>>)
    \o (IF "notes" \in DOMAIN data
        THEN << update_cell(COL_NOTES - 1, data["notes"]) >> ELSE <<>>)

\* Mutant: notes written before status and scheduledDate.
update_job_notes_first(data) ==
    << get_or_create_worksheet(TAB_PIPELINE) >>
    \o (IF "notes" \in DOMAIN data
        THEN << update_cell(COL_NOTES, data["notes"]) >> ELSE <<>>)
    \o (IF "status" \in DOMAIN data
        THEN << update_cell(COL_STATUS, data["status"]) >> ELSE <<>>)
    \o (IF "scheduledDate" \in DOMAIN data
        THEN << update_cell(COL_SCHEDULED, data["scheduledDate"]) >> ELSE <<>>)

update_job(data) ==
    << get_or_create_worksheet(TAB_PIPELINE) >>
    \o (IF "status" \in DOMAIN data
        THEN << update_cell(COL_STATUS, data["status"]) >> ELSE <<>>)
    \o (IF "scheduledDate" \in DOMAIN data
        THEN << update_cell(COL_SCHEDULED, data["scheduledDate"]) >> ELSE <<>>)
    \o (IF "notes" \in DOMAIN data
        THEN << update_cell(COL_NOTES, data["notes"]) >> ELSE <<>>)

setup_sheets ==
    << get_or_create_worksheet(TAB_INQUIRIES),
       get_or_create_worksheet(TAB_ESTIMATES),
       get_or_create_worksheet(TAB_PIPELINE) >>

Handler(op, data) ==
    CASE op = "save_inquiry" -> save_inquiry
      [] op = "get_inquiries" -> get_inquiries
      [] op = "save_estimate" -> save_estimate
      [] op = "get_jobs" -> get_jobs
      [] op = "add_job" -> add_job
      [] op = "update_job" -> update_job(data)
      [] op = "setup_sheets" -> setup_sheets
      [] OTHER -> <<>>

\* The headers each handler passes to get_or_create_worksheet for a tab.
HeadersOf(tab_name) ==
    CASE tab_name = TAB_INQUIRIES -> INQUIRY_HEADERS
      [] tab_name = TAB_ESTIMATES -> ESTIMATE_HEADERS
      [] tab_name = TAB_PIPELINE -> PIPELINE_HEADERS
      [] tab_name = TAB_JOBLIST -> JOBLIST_HEADERS

\* The row a handler passes to ws.append_row for a tab, built at clock c.
RowOf(op, tab_name, data, c) ==
    CASE tab_name = TAB_INQUIRIES -> InquiryRow(data, c)
      [] tab_name = TAB_ESTIMATES -> EstimateRow(data, c)
      [] tab_name = TAB_PIPELINE -> JobRow(data, c)
      [] tab_name = TAB_JOBLIST /\ op = "save_inquiry" ->
            JoblistRow(InquiryKwargs(data), c)
      [] tab_name = TAB_JOBLIST /\ op = "save_estimate" ->
            JoblistRow(EstimateKwargs(data), c)

\* ------------------------------------------------------- request bodies
InquiryPayloads ==
    << [ customerName |-> S("J. Doe"), phone |-> S("555-1212"),
         address |-> S("12 Elm St"), jobTypes |-> <<"Interior">> ],
       [ timestamp |-> S("2026-02-27T10:00:00"), customerName |-> S("A. Poe"),
         email |-> S("poe@example.com"), jobTypes |-> <<"Interior", "Exterior">>,
         notes |-> S("two coats"), status |-> S("Contacted"), hood |-> S("North") ] >>

EstimatePayloads ==
    << [ customerName |-> S("A"), jobAddress |-> S("B"), laborDays |-> N(5) ],
       [ customerName |-> S("J. Doe"), jobAddress |-> S("12 Elm St"),
         estimator |-> S("Sam"), jobType |-> S("Interior"), totalHours |-> N(16),
         totalValue |-> N(1500), conditions |-> [prep |-> S("Heavy")],
         tools |-> <<"Ladder", "Sprayer">>, notes |-> S("trim only") ] >>

JobPayloads ==
    << [ customerName |-> S("J. Doe"), address |-> S("12 Elm St") ],
       [ dateAdded |-> S("02/27/2026"), customerName |-> S("A. Poe"),
         status |-> S("Estimate Sent"), notes |-> S("north side") ] >>

\* PUT /api/job/<row_index>: a JSON subset of {status, scheduledDate, notes}
UpdateKeys == {"status", "scheduledDate", "notes"}
UpdateValue ==
    [ status |-> S("Scheduled"), scheduledDate |-> S("03/15/2026"),
      notes |-> S("called back") ]

\* ---------------------------------------------------------------- state
VARIABLES
    sheets,   \* the spreadsheet document: tab name -> tab
    th,       \* per worker: the request it serves and its position in the handler
    resp,     \* per worker: the response of the request it served last
    clock,    \* datetime.now()
    nreq,     \* requests still to arrive
    log,      \* history: per worker, the writes of its current request, in order
    hist      \* history: per tab, the data rows appended to it, in order

vars == << sheets, th, resp, clock, nreq, log, hist >>

NoResponse == [code |-> 0, records |-> <<>>]
Idle == [op |-> "none", data |-> EmptyDict, rix |-> 0, ip |-> 0, sub |-> "lookup"]

Init ==
    /\ sheets = [tab \in Tabs |-> NoTab]
    /\ th = [t \in Threads |-> Idle]
    /\ resp = [t \in Threads |-> NoResponse]
    /\ clock = 1
    /\ nreq = MaxRequests
    /\ log = [t \in Threads |-> <<>>]
    /\ hist = [tab \in Tabs |-> <<>>]

Program(t) == Handler(th[t].op, th[t].data)
Running(t) == th[t].ip > 0
Instr(t) == Program(t)[th[t].ip]

\* A write as the history records it.
Write(kind, tab, r, c) == [kind |-> kind, tab |-> tab, r |-> r, c |-> c]

\* A request arrives at worker t: request.json is read, get_sheet() opens
\* the document and the handler is at its first call on a tab.
Begin(t, op, data, rix) ==
    /\ ~Running(t)
    /\ nreq > 0
    /\ th' = [th EXCEPT ![t] = [op |-> op, data |-> data, rix |-> rix,
                                ip |-> 1, sub |-> "lookup"]]
    /\ resp' = [resp EXCEPT ![t] = NoResponse]
    /\ log' = [log EXCEPT ![t] = <<>>]
    /\ nreq' = nreq - 1
    /\ UNCHANGED << sheets, clock, hist >>

\* The call at the worker's position returned: go on to the next call, or,
\* after the last one, return the success response (HTTP 200).
Return(t, records) ==
    IF th[t].ip = Len(Program(t))
    THEN /\ th' = [th EXCEPT ![t].ip = 0, ![t].sub = "lookup"]
         /\ resp' = [resp EXCEPT ![t] = [code |-> 200, records |-> records]]
    ELSE /\ th' = [th EXCEPT ![t].ip = @ + 1, ![t].sub = "lookup"]
         /\ UNCHANGED resp

\* ------------------------------------------------------------- requests
PostInquiry(t) ==
    \E i \in 1..Len(InquiryPayloads) : Begin(t, "save_inquiry", InquiryPayloads[i], 0)

GetInquiries(t) == Begin(t, "get_inquiries", EmptyDict, 0)

PostEstimate(t) ==
    \E i \in 1..Len(EstimatePayloads) : Begin(t, "save_estimate", EstimatePayloads[i], 0)

GetJobs(t) == Begin(t, "get_jobs", EmptyDict, 0)

PostJob(t) ==
    \E i \in 1..Len(JobPayloads) : Begin(t, "add_job", JobPayloads[i], 0)

PutJob(t) ==
    \E row_index \in 0..MaxRowIndex, keys \in SUBSET UpdateKeys :
        Begin(t, "update_job", [k \in keys |-> UpdateValue[k]], row_index)

PostSetup(t) == Begin(t, "setup_sheets", EmptyDict, 0)

\* ---------------------------------------------------------------- steps
\* Mutant: the headers are appended to a tab that was found, too.
WorksheetReappendsHeaders(t) ==
    /\ Running(t) /\ Instr(t).kind = "ensure" /\ th[t].sub = "lookup"
    /\ IF sheets[Instr(t).tab].exists
       THEN th' = [th EXCEPT ![t].sub = "header"]
       ELSE th' = [th EXCEPT ![t].sub = "create"]
    /\ UNCHANGED << resp, sheets, clock, nreq, log, hist >>

\* get_or_create_worksheet: spreadsheet.worksheet(tab_name) returned the
\* tab, or raised WorksheetNotFound, which is caught.
Worksheet(t) ==
    /\ Running(t) /\ Instr(t).kind = "ensure" /\ th[t].sub = "lookup"
    /\ IF sheets[Instr(t).tab].exists
       THEN Return(t, <<>>)
       ELSE /\ th' = [th EXCEPT ![t].sub = "create"]
            /\ UNCHANGED resp
    /\ UNCHANGED << sheets, clock, nreq, log, hist >>

\* get_or_create_worksheet: spreadsheet.add_worksheet(title, rows=1000,
\* cols=len(headers)); the service rejects a title that exists.
AddWorksheet(t) ==
    /\ Running(t) /\ Instr(t).kind = "ensure" /\ th[t].sub = "create"
    /\ ~sheets[Instr(t).tab].exists
    /\ sheets' = [sheets EXCEPT ![Instr(t).tab] = NewTab(Len(HeadersOf(Instr(t).tab)))]
    /\ th' = [th EXCEPT ![t].sub = "header"]
    /\ log' = [log EXCEPT ![t] = Append(@, Write("create", Instr(t).tab, 0, 0))]
    /\ UNCHANGED << resp, clock, nreq, hist >>

\* get_or_create_worksheet: ws.append_row(headers) on the tab just added.
AppendHeaders(t) ==
    /\ Running(t) /\ Instr(t).kind = "ensure" /\ th[t].sub = "header"
    /\ LET tab == Instr(t).tab
       IN /\ sheets' = [sheets EXCEPT ![tab].rows = AppendRow(@, HeaderRow(HeadersOf(tab)))]
          /\ log' = [log EXCEPT ![t] =
                        Append(@, Write("header", tab, Len(sheets[tab].rows) + 1, 0))]
    /\ Return(t, <<>>)
    /\ UNCHANGED << clock, nreq, hist >>

\* ws.append_row(row) of save_inquiry, save_estimate, add_job and
\* append_to_joblist.
AppendData(t) ==
    /\ Running(t) /\ Instr(t).kind = "append"
    /\ sheets[Instr(t).tab].exists
    /\ LET tab == Instr(t).tab
           rows == AppendRow(sheets[tab].rows, RowOf(th[t].op, tab, th[t].data, clock))
       IN /\ sheets' = [sheets EXCEPT ![tab].rows = rows]
          /\ hist' = [hist EXCEPT ![tab] = Append(@, rows[Len(rows)])]
          /\ log' = [log EXCEPT ![t] = Append(@, Write("append", tab, Len(rows), 0))]
    /\ Return(t, <<>>)
    /\ UNCHANGED << clock, nreq >>

\* ws.update_cell(row_index, col, value) of update_job; row 0 is no cell,
\* the call raises.
UpdateCellStep(t) ==
    /\ Running(t) /\ Instr(t).kind = "update"
    /\ th[t].rix >= 1
    /\ sheets[Instr(t).tab].exists
    /\ LET tab == Instr(t).tab
       IN /\ sheets' = [sheets EXCEPT ![tab].rows =
                          UpdateCell(@, sheets[tab].cols, th[t].rix,
                                     Instr(t).col, Instr(t).val)]
          /\ log' = [log EXCEPT ![t] =
                        Append(@, Write("update", tab, th[t].rix, Instr(t).col))]
    /\ Return(t, <<>>)
    /\ UNCHANGED << clock, nreq, hist >>

\* ws.get_all_records() of get_inquiries and get_jobs.
ReadRecords(t) ==
    /\ Running(t) /\ Instr(t).kind = "records"
    /\ sheets[Instr(t).tab].exists
    /\ Return(t, GetAllRecords(sheets[Instr(t).tab].rows))
    /\ UNCHANGED << sheets, clock, nreq, log, hist >>

\* Mutant: the exception is swallowed and success is answered.
RaiseSwallowed(t) ==
    /\ Running(t)
    /\ th' = [th EXCEPT ![t].ip = 0, ![t].sub = "lookup"]
    /\ resp' = [resp EXCEPT ![t] = [code |-> 200, records |-> <<>>]]
    /\ UNCHANGED << sheets, clock, nreq, log, hist >>

\* The call at the worker's position raised (authentication, network,
\* quota, a rejected request): `except Exception` answers HTTP 500.
Raise(t) ==
    /\ Running(t)
    /\ th' = [th EXCEPT ![t].ip = 0, ![t].sub = "lookup"]
    /\ resp' = [resp EXCEPT ![t] = [code |-> 500, records |-> <<>>]]
    /\ UNCHANGED << sheets, clock, nreq, log, hist >>

\* Time passes.
Tick ==
    /\ clock < MaxClock
    /\ clock' = clock + 1
    /\ UNCHANGED << sheets, th, resp, nreq, log, hist >>

\* ------------------------------------------------ the whole application
\* Any request on any route, two workers, an empty document at the start.
Next ==
    \E t \in Threads :
        \/ PostInquiry(t) \/ GetInquiries(t) \/ PostEstimate(t) \/ GetJobs(t)
        \/ PostJob(t) \/ PutJob(t) \/ PostSetup(t)
        \/ Worksheet(t) \/ AddWorksheet(t) \/ AppendHeaders(t)
        \/ AppendData(t) \/ UpdateCellStep(t) \/ ReadRecords(t) \/ Raise(t)

Spec == Init /\ [][Next]_vars

\* ------------------------------------------------- the pipeline routes
\* The pipeline tab after k successful POST /api/job requests at clock 1.
RECURSIVE PipelineRows(_)
PipelineRows(k) ==
    IF k = 0 THEN AppendRow(<<>>, HeaderRow(PIPELINE_HEADERS))
    ELSE AppendRow(PipelineRows(k - 1),
                   JobRow(JobPayloads[((k - 1) % Len(JobPayloads)) + 1], 1))

\* The document is empty, or holds the pipeline tab with 0..MaxJobs jobs.
InitPipeline ==
    /\ \E k \in -1..MaxJobs :
        /\ sheets = [tab \in Tabs |->
                        IF tab = TAB_PIPELINE /\ k >= 0
                        THEN [exists |-> TRUE, cols |-> Len(PIPELINE_HEADERS),
                              rows |-> PipelineRows(k)]
                        ELSE NoTab]
        /\ hist = [tab \in Tabs |->
                        IF tab = TAB_PIPELINE /\ k >= 1
                        THEN Tail(PipelineRows(k)) ELSE <<>>]
    /\ th = [t \in Threads |-> Idle]
    /\ resp = [t \in Threads |-> NoResponse]
    /\ clock = 1
    /\ nreq = MaxPipelineRequests
    /\ log = [t \in Threads |-> <<>>]

NextPipeline ==
    \E t \in Threads :
        \/ GetJobs(t) \/ PostJob(t) \/ PutJob(t)
        \/ Worksheet(t) \/ AddWorksheet(t) \/ AppendHeaders(t)
        \/ AppendData(t) \/ UpdateCellStep(t) \/ ReadRecords(t) \/ Raise(t)

SpecPipeline == InitPipeline /\ [][NextPipeline]_vars

\* ------------------------------------------- the append and list routes
InitList ==
    /\ sheets = [tab \in Tabs |-> NoTab]
    /\ th = [t \in Threads |-> Idle]
    /\ resp = [t \in Threads |-> NoResponse]
    /\ clock = 1
    /\ nreq = MaxListRequests
    /\ log = [t \in Threads |-> <<>>]
    /\ hist = [tab \in Tabs |-> <<>>]

NextList ==
    \E t \in Threads :
        \/ PostInquiry(t) \/ GetInquiries(t) \/ PostJob(t) \/ GetJobs(t)
        \/ Worksheet(t) \/ AddWorksheet(t) \/ AppendHeaders(t)
        \/ AppendData(t) \/ ReadRecords(t) \/ Raise(t)

SpecList == InitList /\ [][NextList]_vars

\* ------------------------------------------------- one POST, any body
\* POST /api/inquiry: any subset of the body's fields, one value per field.
InquiryKeys ==
    { "timestamp", "customerName", "phone", "email", "address", "jobTypes",
      "timeline", "lastPainted", "previousCustomer", "notes", "status" }
InquiryValue ==
    [ timestamp |-> S("2026-02-27T10:00:00"), customerName |-> S("J. Doe"),
      phone |-> S("555-1212"), email |-> S("doe@example.com"),
      address |-> S("12 Elm St"), jobTypes |-> <<"Interior", "Exterior">>,
      timeline |-> S("ASAP"), lastPainted |-> S("2019"),
      previousCustomer |-> S("Yes"), notes |-> S("two coats"),
      status |-> S("Contacted") ]

\* POST /api/estimate: laborDays absent, or one of these values.
LaborDaysValues ==
    << N(0), N(1), N(5), S("2"), S("0"), S("abc"), S(""), S(" "), Null >>
EstimateBase == [ customerName |-> S("A"), jobAddress |-> S("B"), notes |-> S("trim only") ]

\* Worker 1 serves one POST /api/inquiry or POST /api/estimate on an empty
\* document while time passes.
InitRows ==
    /\ sheets = [tab \in Tabs |-> NoTab]
    /\ \/ \E keys \in SUBSET InquiryKeys :
            th = [t \in Threads |->
                    IF t = 1
                    THEN [op |-> "save_inquiry", data |-> [k \in keys |-> InquiryValue[k]],
                          rix |-> 0, ip |-> 1, sub |-> "lookup"]
                    ELSE Idle]
       \/ \E i \in 0..Len(LaborDaysValues) :
            th = [t \in Threads |->
                    IF t = 1
                    THEN [op |-> "save_estimate",
                          data |-> IF i = 0 THEN EstimateBase
                                   ELSE EstimateBase @@ ("laborDays" :> LaborDaysValues[i]),
                          rix |-> 0, ip |-> 1, sub |-> "lookup"]
                    ELSE Idle]
    /\ resp = [t \in Threads |-> NoResponse]
    /\ clock = 1
    /\ nreq = 0
    /\ log = [t \in Threads |-> <<>>]
    /\ hist = [tab \in Tabs |-> <<>>]

NextRows ==
    \/ \E t \in Threads :
        \/ Worksheet(t) \/ AddWorksheet(t) \/ AppendHeaders(t)
        \/ AppendData(t) \/ Raise(t)
    \/ Tick

SpecRows == InitRows /\ [][NextRows]_vars

\* ============================================================== claims
\* Worker t took the step.
Stepped(t) == th'[t] # th[t]
\* Worker t has answered its request.
Finished(t) == ~Running(t) /\ resp[t].code # 0
\* The data rows / the cells the current request of worker t has written.
AppendsOf(t) == SelectSeq(log[t], LAMBDA w : w.kind = "append")
UpdatesOf(t) == SelectSeq(log[t], LAMBDA w : w.kind = "update")
\* Rows and columns the frame conditions range over.
FrameRows == 1..(MaxRowIndex + MaxJobs + 2)
HasHeader(tab) ==
    /\ sheets[tab].exists
    /\ Len(sheets[tab].rows) >= 1
    /\ sheets[tab].rows[1] = HeaderRow(HeadersOf(tab))

\* C1: a tab's row 1, once it is the tab's header list, is never rewritten
\* by any later operation.
C1_HeaderNeverRewritten ==
    [][\A tab \in Tabs :
          HasHeader(tab) => sheets'[tab].rows[1] = HeaderRow(HeadersOf(tab))]_vars

\* C2: get_or_create_worksheet on a tab that exists creates no tab and
\* writes no row, and a successful POST /api/setup leaves the three tabs in
\* place, so the steps of a POST /api/setup that finds them change no tab
\* and no cell.
SetupTabs == {TAB_INQUIRIES, TAB_ESTIMATES, TAB_PIPELINE}
C2_SetupIdempotent ==
    /\ [](\A t \in Threads :
            (th[t].op = "setup_sheets" /\ Finished(t) /\ resp[t].code = 200)
            => \A tab \in SetupTabs : sheets[tab].exists)
    /\ [][\A t \in Threads :
            (/\ Running(t) /\ Stepped(t)
             /\ Instr(t).kind = "ensure" /\ th[t].sub = "lookup"
             /\ sheets[Instr(t).tab].exists)
            => /\ sheets' = sheets
               /\ log'[t] = log[t]
               /\ th'[t].sub = "lookup"]_vars
    /\ [][\A t \in Threads :
            (/\ th[t].op = "setup_sheets" /\ Running(t) /\ Stepped(t)
             /\ th[t].sub = "lookup"
             /\ \A tab \in SetupTabs : sheets[tab].exists)
            => /\ sheets' = sheets
               /\ log'[t] = log[t]
               /\ th'[t].sub = "lookup"]_vars

\* C2 witness: two POST /api/setup succeeded; the first created the three
\* tabs, the second found them and wrote nothing.
C2_Witness ==
    \E t1, t2 \in Threads :
        /\ t1 # t2
        /\ th[t1].op = "setup_sheets" /\ resp[t1].code = 200 /\ Len(log[t1]) = 6
        /\ th[t2].op = "setup_sheets" /\ resp[t2].code = 200 /\ log[t2] = <<>>
        /\ \A tab \in SetupTabs : sheets[tab].rows = << HeaderRow(HeadersOf(tab)) >>

\* The primary tab and the Joblist status label of a POST route.
PrimaryTab(op) == IF op = "save_inquiry" THEN TAB_INQUIRIES ELSE TAB_ESTIMATES
MirrorStatus(op) == IF op = "save_inquiry" THEN "Need Estimate" ELSE "Estimate Sent"
AddressKey(op) == IF op = "save_inquiry" THEN "address" ELSE "jobAddress"
PostRoutes == {"save_inquiry", "save_estimate"}

\* C6: a POST /api/inquiry or POST /api/estimate that answers success has
\* appended exactly one row to its primary tab and then exactly one row to
\* the Joblist tab, whose Status column (C) is "Need Estimate" resp.
\* "Estimate Sent" and whose address (A), customer name (K) and notes (G)
\* columns are the request's fields.
C6_MirrorOnSuccess ==
    \A t \in Threads :
        (th[t].op \in PostRoutes /\ Finished(t) /\ resp[t].code = 200)
        => LET a == AppendsOf(t)
               d == th[t].data
           IN /\ Len(a) = 2
              /\ a[1].tab = PrimaryTab(th[t].op)
              /\ a[2].tab = TAB_JOBLIST
              /\ a[1].r <= Len(sheets[a[1].tab].rows)
              /\ Cell(sheets[a[1].tab], a[1].r, 2) = Get(d, "customerName", Empty)
              /\ a[2].r <= Len(sheets[TAB_JOBLIST].rows)
              /\ LET row == sheets[TAB_JOBLIST].rows[a[2].r]
                 IN /\ Len(row) = 21
                    /\ row[3] = S(MirrorStatus(th[t].op))
                    /\ row[1] = Get(d, AddressKey(th[t].op), Empty)
                    /\ row[11] = Get(d, "customerName", Empty)
                    /\ row[7] = Get(d, "notes", Empty)

\* C6 witness: a POST /api/inquiry with notes answered success and its
\* Joblist row reads "Need Estimate".
C6_Witness ==
    \E t \in Threads :
        /\ th[t].op = "save_inquiry" /\ Finished(t) /\ resp[t].code = 200
        /\ "notes" \in DOMAIN th[t].data
        /\ Len(AppendsOf(t)) = 2
        /\ sheets[TAB_JOBLIST].rows[AppendsOf(t)[2].r][3] = S("Need Estimate")
        /\ sheets[TAB_JOBLIST].rows[AppendsOf(t)[2].r][7] = S("two coats")

\* C7: when the primary append of a POST /api/inquiry or /api/estimate
\* succeeded and the Joblist step after it failed, the answer is HTTP 500,
\* the primary row is still in its tab and the request added no Joblist row.
C7_MirrorFailure ==
    \A t \in Threads :
        (/\ th[t].op \in PostRoutes /\ Finished(t)
         /\ \E i \in 1..Len(log[t]) :
                log[t][i].kind = "append" /\ log[t][i].tab = PrimaryTab(th[t].op)
         /\ \A i \in 1..Len(log[t]) :
                ~(log[t][i].kind = "append" /\ log[t][i].tab = TAB_JOBLIST))
        => LET a == AppendsOf(t)
           IN /\ resp[t].code = 500
              /\ resp[t].records = <<>>
              /\ Len(a) = 1
              /\ a[1].tab = PrimaryTab(th[t].op)
              /\ a[1].r <= Len(sheets[a[1].tab].rows)
              /\ sheets[a[1].tab].rows[a[1].r]
                    \in {hist[a[1].tab][i] : i \in 1..Len(hist[a[1].tab])}
              /\ Cell(sheets[a[1].tab], a[1].r, 2) = Get(th[t].data, "customerName", Empty)
              /\ Len(hist[TAB_JOBLIST]) < Len(hist[TAB_INQUIRIES]) + Len(hist[TAB_ESTIMATES])

\* C7 witness: a POST /api/estimate wrote its estimate row, created the
\* Joblist tab and then failed: HTTP 500, the estimate row persists, the
\* Joblist tab holds no data row.
C7_Witness ==
    \E t \in Threads :
        /\ th[t].op = "save_estimate" /\ Finished(t) /\ resp[t].code = 500
        /\ Len(AppendsOf(t)) = 1
        /\ Len(hist[TAB_ESTIMATES]) = 1
        /\ sheets[TAB_JOBLIST].exists
        /\ hist[TAB_JOBLIST] = <<>>

\* C9: rows are only appended: no tab disappears or loses a row, a row
\* written to the Customer Inquiries, Detailed Estimates or Joblist tab never
\* changes, and a cell that changes after it was written is in column 8, 9
\* or 11 of the Job Pipeline Master tab and is written by PUT /api/job.
C9_AppendOnly ==
    [][\A tab \in Tabs :
          /\ sheets[tab].exists => sheets'[tab].exists
          /\ Len(sheets'[tab].rows) >= Len(sheets[tab].rows)
          /\ \A r \in 1..Len(sheets[tab].rows) :
                \/ sheets'[tab].rows[r] = sheets[tab].rows[r]
                \/ /\ tab = TAB_PIPELINE
                   /\ \E t \in Threads :
                        th[t].op = "update_job" /\ Running(t) /\ Stepped(t)
                   /\ \A c \in 1..Len(sheets[tab].rows[r]) :
                        sheets'[tab].rows[r][c] # sheets[tab].rows[r][c]
                        => c \in {8, 9, 11}]_vars

\* C9 witness: PUT /api/job/2 has changed the status of a job row that
\* POST /api/job appended.
C9_Witness ==
    \E t \in Threads :
        /\ th[t].op = "update_job" /\ Finished(t) /\ resp[t].code = 200
        /\ th[t].rix = 2 /\ "status" \in DOMAIN th[t].data
        /\ Len(hist[TAB_PIPELINE]) = 1
        /\ hist[TAB_PIPELINE][1][8] = S("New Lead")
        /\ HasHeader(TAB_PIPELINE)
        /\ Len(sheets[TAB_PIPELINE].rows) = 2
        /\ sheets[TAB_PIPELINE].rows[2][8] = S("Scheduled")
        /\ sheets[TAB_PIPELINE].rows[2][2] = hist[TAB_PIPELINE][1][2]

\* What the claims call a numeric laborDays: a JSON number, or text that
\* reads as a number.
IsNumeric(x) == x.k = "num" \/ (x.k = "str" /\ x.s \in {"2", "0"})
NumberOf(x) == IF x.k = "num" THEN x.n ELSE IF x.s = "2" THEN 2 ELSE 0
\* The Joblist row a POST /api/estimate has mirrored.
Mirrored(t) == th[t].op = "save_estimate" /\ Len(AppendsOf(t)) = 2
MirrorValue(t) == Cell(sheets[TAB_JOBLIST], AppendsOf(t)[2].r, 18)

\* C3 as stated: for numeric laborDays = d the mirrored Joblist row's
\* Estimated Value (column R, the 18th) is d * 560; for non-numeric or absent
\* laborDays it is empty.
C3_EstimatedValue ==
    \A t \in Threads :
        Mirrored(t)
        => LET d == th[t].data
           IN IF "laborDays" \in DOMAIN d /\ IsNumeric(d["laborDays"])
              THEN MirrorValue(t) = N(NumberOf(d["laborDays"]) * 560)
              ELSE MirrorValue(t) = Empty

\* C3 amended: for laborDays a JSON number d other than 0, or text that
\* reads as a number d, column R is d * 560; for laborDays absent, the number
\* 0, null, or text that does not read as a number, column R is empty.
C3_EstimatedValueNonZero ==
    \A t \in Threads :
        Mirrored(t)
        => LET d == th[t].data
           IN IF /\ "laborDays" \in DOMAIN d
                 /\ IsNumeric(d["laborDays"])
                 /\ d["laborDays"] # N(0)
              THEN MirrorValue(t) = N(NumberOf(d["laborDays"]) * 560)
              ELSE MirrorValue(t) = Empty

\* C3 witness: laborDays = 5 is mirrored with Estimated Value 2800.
C3_Witness ==
    \E t \in Threads :
        /\ Mirrored(t) /\ Finished(t) /\ resp[t].code = 200
        /\ "laborDays" \in DOMAIN th[t].data
        /\ th[t].data["laborDays"] = N(5)
        /\ MirrorValue(t) = N(2800)
        /\ Cell(sheets[TAB_JOBLIST], AppendsOf(t)[2].r, 5) = N(5)

\* The JSON field behind each column of the Customer Inquiries tab.
InquiryField ==
    ("Timestamp" :> "timestamp") @@ ("Customer Name" :> "customerName")
    @@ ("Phone" :> "phone") @@ ("Email" :> "email") @@ ("Address" :> "address")
    @@ ("Job Types" :> "jobTypes") @@ ("Timeline" :> "timeline")
    @@ ("Last Painted" :> "lastPainted")
    @@ ("Previous Customer" :> "previousCustomer") @@ ("Notes" :> "notes")
    @@ ("Status" :> "status")
InquiryAppended(t) ==
    /\ th[t].op = "save_inquiry"
    /\ Len(AppendsOf(t)) >= 1
    /\ AppendsOf(t)[1].tab = TAB_INQUIRIES

\* C4: the row POST /api/inquiry appends to the Customer Inquiries tab has
\* 11 values, the value under each header being the request's field of that
\* header: an omitted field is the empty string, except status, which is
\* "New", and timestamp, which is the time of the request.
C4_InquiryRow ==
    \A t \in Threads :
        InquiryAppended(t)
        => LET d == th[t].data
               r == AppendsOf(t)[1].r
               row == sheets[TAB_INQUIRIES].rows[r]
           IN /\ r <= Len(sheets[TAB_INQUIRIES].rows)
              /\ Len(row) = 11
              /\ \A i \in 1..11 :
                    LET key == InquiryField[INQUIRY_HEADERS[i]]
                    IN IF key \in DOMAIN d
                       THEN IF key = "jobTypes"
                            THEN row[i] = S("Interior, Exterior")
                            ELSE row[i] = d[key]
                       ELSE IF key = "status" THEN row[i] = S("New")
                       ELSE IF key = "timestamp"
                            THEN \E c \in 1..clock : row[i] = S(IsoFormat(c))
                       ELSE row[i] = Empty

\* C4 witness: the inquiry of J. Doe without timestamp, email and status is
\* stored at clock 2 as [<now>, "J. Doe", "555-1212", "", "12 Elm St",
\* "Interior, Exterior", "", "", "", "", "New"].
C4_Witness ==
    \E t \in Threads :
        /\ InquiryAppended(t) /\ Finished(t) /\ resp[t].code = 200
        /\ DOMAIN th[t].data = {"customerName", "phone", "address", "jobTypes"}
        /\ sheets[TAB_INQUIRIES].rows[AppendsOf(t)[1].r] =
             << S("2026-03-02T09:00:00"), S("J. Doe"), S("555-1212"), Empty,
                S("12 Elm St"), S("Interior, Exterior"), Empty, Empty, Empty,
                Empty, S("New") >>

\* The columns of the fields a PUT /api/job body holds.
PresentCols(d) ==
    (IF "status" \in DOMAIN d THEN {8} ELSE {})
    \cup (IF "scheduledDate" \in DOMAIN d THEN {9} ELSE {})
    \cup (IF "notes" \in DOMAIN d THEN {11} ELSE {})
ChangedCell(tab, r, c) == Cell(sheets'[tab], r, c) # Cell(sheets[tab], r, c)
RowAt(tab, r) == [c \in 1..Len(PIPELINE_HEADERS) |-> Cell(tab, r, c)]
ChangedRow(tab, r) == RowAt(sheets'[tab], r) # RowAt(sheets[tab], r)
PipelineCols == 1..Len(PIPELINE_HEADERS)
PutStep(t) == th[t].op = "update_job" /\ Running(t) /\ Stepped(t)

\* C5 as stated: a step of PUT /api/job/<R> changes no cell but the cells
\* of row R of the Job Pipeline Master tab in the columns (8, 9, 11) of the
\* fields the body holds, and changes no other tab.
C5_UpdateFrame ==
    [][\A t \in Threads :
          PutStep(t)
          => /\ \A tab \in Tabs \ {TAB_PIPELINE} : sheets'[tab] = sheets[tab]
             /\ \A r \in FrameRows :
                   ChangedRow(TAB_PIPELINE, r)
                   => \A c \in PipelineCols :
                         ChangedCell(TAB_PIPELINE, r, c)
                         => r = th[t].rix /\ c \in PresentCols(th[t].data)]_vars

\* C5 amended: on a Job Pipeline Master tab that exists, PUT /api/job/<R>
\* changes no cell but those of row R in the columns of the fields the body
\* holds; when the tab does not exist the PUT first creates it and appends
\* its header row, and then writes those cells.  No other tab changes.
C5_UpdateFrameOnExistingTab ==
    [][\A t \in Threads :
          PutStep(t)
          => /\ \A tab \in Tabs \ {TAB_PIPELINE} : sheets'[tab] = sheets[tab]
             /\ th[t].sub = "header"
                => \E i \in 1..Len(log[t]) :
                      log[t][i].kind = "create" /\ log[t][i].tab = TAB_PIPELINE
             /\ \A r \in FrameRows :
                   ChangedRow(TAB_PIPELINE, r)
                   => \A c \in PipelineCols :
                         ChangedCell(TAB_PIPELINE, r, c)
                         => IF th[t].sub = "header"
                            THEN /\ r = Len(sheets[TAB_PIPELINE].rows) + 1
                                 /\ Cell(sheets'[TAB_PIPELINE], r, c) = S(PIPELINE_HEADERS[c])
                            ELSE /\ r = th[t].rix
                                 /\ c \in PresentCols(th[t].data)]_vars

\* C5 witness: PUT /api/job/2 {status} on a tab of two jobs: the status of
\* row 2 is written, the header and row 3 are as they were.
C5_Witness ==
    \E t \in Threads :
        /\ th[t].op = "update_job" /\ Finished(t) /\ resp[t].code = 200
        /\ th[t].rix = 2 /\ DOMAIN th[t].data = {"status"}
        /\ Len(hist[TAB_PIPELINE]) = 2
        /\ sheets[TAB_PIPELINE].rows =
             << HeaderRow(PIPELINE_HEADERS),
                [hist[TAB_PIPELINE][1] EXCEPT ![8] = S("Scheduled")],
                hist[TAB_PIPELINE][2] >>
        /\ hist[TAB_PIPELINE][1][8] = S("New Lead")
        /\ hist[TAB_PIPELINE][2][8] = S("Estimate Sent")

\* The columns of the body's fields in the order update_job writes them.
PresentSeq(d) ==
    (IF "status" \in DOMAIN d THEN <<8>> ELSE <<>>)
    \o (IF "scheduledDate" \in DOMAIN d THEN <<9>> ELSE <<>>)
    \o (IF "notes" \in DOMAIN d THEN <<11>> ELSE <<>>)
IsPrefix(a, b) == Len(a) <= Len(b) /\ \A i \in 1..Len(a) : a[i] = b[i]
FieldOfCol(c) == IF c = 8 THEN "status" ELSE IF c = 9 THEN "scheduledDate" ELSE "notes"
WrittenCols(t) == [i \in 1..Len(UpdatesOf(t)) |-> UpdatesOf(t)[i].c]

\* C10: PUT /api/job/<R> writes column 8, then 9, then 11, one call each:
\* what it has written is a prefix of that order and stays in row R; a
\* failing call changes nothing back, ends the request with HTTP 500 and
\* leaves the later columns unwritten; success means every column written.
C10_PartialUpdate ==
    /\ [](\A t \in Threads :
            th[t].op = "update_job"
            => LET u == WrittenCols(t)
                   d == th[t].data
               IN /\ IsPrefix(u, PresentSeq(d))
                  /\ \A i \in 1..Len(u) :
                        /\ UpdatesOf(t)[i].r = th[t].rix
                        /\ UpdatesOf(t)[i].tab = TAB_PIPELINE
                        /\ Cell(sheets[TAB_PIPELINE], th[t].rix, u[i])
                              = d[FieldOfCol(u[i])]
                  /\ (Finished(t) /\ resp[t].code = 200) => u = PresentSeq(d)
                  /\ (Finished(t) /\ u # PresentSeq(d)) => resp[t].code = 500)
    /\ [][\A t \in Threads :
            (PutStep(t) /\ resp'[t].code = 500)
            => /\ sheets' = sheets
               /\ th'[t].ip = 0
               /\ log'[t] = log[t]]_vars

\* C10 witness: PUT /api/job/2 {status, scheduledDate, notes} wrote status
\* and scheduledDate and failed on notes: HTTP 500, row 2 holds the two new
\* values and its old notes.
C10_Witness ==
    \E t \in Threads :
        /\ th[t].op = "update_job" /\ Finished(t) /\ resp[t].code = 500
        /\ th[t].rix = 2 /\ DOMAIN th[t].data = UpdateKeys
        /\ WrittenCols(t) = <<8, 9>>
        /\ Len(hist[TAB_PIPELINE]) = 2
        /\ sheets[TAB_PIPELINE].rows[2] =
             [hist[TAB_PIPELINE][1] EXCEPT ![8] = S("Scheduled"), ![9] = S("03/15/2026")]
        /\ sheets[TAB_PIPELINE].rows[2][11] = Empty

ListTab(op) == IF op = "get_jobs" THEN TAB_PIPELINE ELSE TAB_INQUIRIES

\* C8: when GET /api/jobs (GET /api/inquiries) answers, on a tab whose row
\* 1 is its header list and to which N rows were appended since, it returns
\* exactly N records, in the order of the appends, each keyed by the header
\* fields with the appended row's values.
C8_ListAfterAppends ==
    [][\A t \in Threads :
          (/\ th[t].op \in {"get_jobs", "get_inquiries"}
           /\ Running(t) /\ resp'[t].code = 200
           /\ HasHeader(ListTab(th[t].op)))
          => LET tab == ListTab(th[t].op)
                 recs == resp'[t].records
                 hdr == HeadersOf(tab)
             IN /\ Len(recs) = Len(hist[tab])
                /\ \A i \in 1..Len(recs) :
                      /\ DOMAIN recs[i] = {S(hdr[j]) : j \in 1..Len(hdr)}
                      /\ \A j \in 1..Len(hdr) : recs[i][S(hdr[j])] = hist[tab][i][j]]_vars

\* C8 witness: GET /api/jobs after two POST /api/job returned two records,
\* J. Doe's job before A. Poe's.
C8_Witness ==
    \E t \in Threads :
        /\ th[t].op = "get_jobs" /\ Finished(t) /\ resp[t].code = 200
        /\ Len(resp[t].records) = 2
        /\ resp[t].records[1][S("Customer Name")] = S("J. Doe")
        /\ resp[t].records[2][S("Customer Name")] = S("A. Poe")
        /\ resp[t].records[2][S("Status")] = S("Estimate Sent")

====
